---- MODULE Spec2Model ----
(***************************************************************************)
(* The vault2 program (programs/vault2/src/lib.rs): a per-user token vault *)
(* with a savings target, an optional time lock and a token account held   *)
(* by a program-derived authority.  The model covers the four instructions *)
(* (initialize, deposit, withdraw, lock_tokens), the account validation    *)
(* each performs before its handler runs, and the token transfers the      *)
(* handlers issue.                                                         *)
(*                                                                         *)
(* Public keys are strings.  A transaction is atomic: an instruction that  *)
(* returns an error leaves every account as it was.                        *)
(*                                                                         *)
(* Spec is the program with one Vault and requests of every kind against   *)
(* it; SpecClock is the owner and the Vault under a clock that keeps       *)
(* advancing; SpecPair is two users with a Vault each.                     *)
(***************************************************************************)
EXTENDS Integers, Sequences, FiniteSets, TLC

VARIABLES
    state,      \* the Vault accounts: state key -> Vault
    tokens,     \* the SPL token accounts: key -> [mint, owner, amount]
    clock,      \* Clock::get()?.unix_timestamp
    last,       \* the last instruction processed, its inputs and its outcome
    creator,    \* history: state key -> the signer whose initialize created it
    saved,      \* history: state key -> deposits made since initialize
    lockCall    \* history: state key -> the last accepted lock_tokens call

vars == <<state, tokens, clock, last, creator, saved, lockCall>>

---------------------------------------------------------------------------
(* Bounds of the model. *)

\* tokens each user token account holds at the start
InitBal == 3
\* the largest amount argument of deposit and withdraw
MaxAmount == 2
\* the non-zero savings target offered to initialize (0 is always offered)
MaxTarget == 3
\* the clock runs from 0 to MaxTime
MaxTime == 2
\* width in bits of the signed timestamp (i64 in the program, narrowed here)
TimestampBits == 5

Users == {"u1", "u2"}
\* The users that create a vault under Spec.  u1 owns the vault; u2 holds
\* token accounts and signs deposit, withdraw and lock_tokens against it.
Founders == {"u1"}
Mints == {"m1", "m2"}

\* The range of the signed timestamp.  Amounts are u64 in the program; the
\* token supply of the model (InitBal per user token account) stays far below
\* 2^64, so no balance of the model can overflow.
I64_MAX == 2 ^ (TimestampBits - 1) - 1
I64_MIN == -(2 ^ (TimestampBits - 1))

Targets == {0, MaxTarget}
Amounts == 0 .. MaxAmount
Durations == {-1, 0, 1, I64_MAX}

---------------------------------------------------------------------------
(* Option<i64> *)

None == <<>>
Some(t) == <<t>>
IsSome(o) == Len(o) = 1
Unwrap(o) == o[1]

---------------------------------------------------------------------------
(* Addresses *)

\* The bump that find_program_address returns for a set of seeds.
CanonicalBump == 255

\* Pubkey::find_program_address(seeds, program_id).0 for seeds [tag, parent]:
\* a deterministic, collision-free function of the seeds.
FindProgramAddress(tag, parent) == tag \o "/" \o parent

\* Pubkey::create_program_address(seeds ++ [bump], program_id): the address
\* for the stored bump; another bump yields another address.
CreateProgramAddress(tag, parent, bump) ==
    IF bump = CanonicalBump THEN FindProgramAddress(tag, parent)
    ELSE "offcurve/" \o tag \o "/" \o parent

\* A token account a user holds for a mint (created outside the program).
UserTokenAccount(u, m) == "ata/" \o u \o "/" \o m

StateKeys == {FindProgramAddress("state", u) : u \in Users}
VaultKeys == {FindProgramAddress("vault", s) : s \in StateKeys}
UserTokenKeys == {UserTokenAccount(u, m) : u \in Users, m \in Mints}
TokenKeys == UserTokenKeys \cup VaultKeys

---------------------------------------------------------------------------
(* The outcome of an instruction *)

Ok == "Ok"

\* What `last` records of the step that led to the current state: the
\* instruction, the signer, the state account, the user token account, the
\* vault token account and the vault authority it named, its numeric
\* argument, its mint argument (initialize), its result, the named vault
\* token account's balance and the named Vault's locked_until before it, and
\* the transfers made.
Outcome(op, user, st, uta, vta, auth, arg, mint, result, pre, locked, transfers) ==
    [op |-> op, user |-> user, state |-> st, uta |-> uta, vta |-> vta,
     auth |-> auth, arg |-> arg, mint |-> mint, result |-> result,
     pre |-> pre, locked |-> locked, transfers |-> transfers]

NoOutcome(op) == Outcome(op, "", "", "", "", "", 0, "", "Ok", 0, None, <<>>)

\* locked_until of the Vault at `st`, None where there is no Vault.
LockedUntil(vaults, st) ==
    IF st \in DOMAIN vaults THEN vaults[st].locked_until ELSE None

Balance(tk, key) == IF key \in DOMAIN tk THEN tk[key].amount ELSE 0

---------------------------------------------------------------------------
(* The SPL Token program's Transfer, reached through token::transfer *)

\* The transfer made without looking at the balance of the source.
TransferUnfunded(tk, from, to, authority, signers, amount) ==
    IF from \notin DOMAIN tk \/ to \notin DOMAIN tk THEN "UninitializedAccount"
    ELSE IF tk[from].mint # tk[to].mint THEN "MintMismatch"
    ELSE IF tk[from].owner # authority THEN "OwnerMismatch"
    ELSE IF authority \notin signers THEN "MissingRequiredSignature"
    ELSE Ok

\* The checks of a transfer of `amount` from `from` to `to` under `authority`,
\* `signers` being the keys that sign the invocation.
TransferResult(tk, from, to, authority, signers, amount) ==
    IF from \notin DOMAIN tk \/ to \notin DOMAIN tk THEN "UninitializedAccount"
    ELSE IF tk[from].amount < amount THEN "InsufficientFunds"
    ELSE IF tk[from].mint # tk[to].mint THEN "MintMismatch"
    ELSE IF tk[from].owner # authority THEN "OwnerMismatch"
    ELSE IF authority \notin signers THEN "MissingRequiredSignature"
    ELSE Ok

\* The source debited, the destination never credited.
TransferDebitOnly(tk, from, to, amount) ==
    IF from = to THEN tk
    ELSE [tk EXCEPT ![from].amount = @ - amount]

\* The balances after an accepted transfer.
TransferEffect(tk, from, to, amount) ==
    IF from = to THEN tk
    ELSE [tk EXCEPT ![from].amount = @ - amount, ![to].amount = @ + amount]

TransferRecord(from, to, authority, amount) ==
    [from |-> from, to |-> to, authority |-> authority, amount |-> amount]

---------------------------------------------------------------------------
(* initialize *)

\* The account created over whatever is there (init_if_needed, unchecked).
InitAccountAnyway(accounts, key) == TRUE

\* `init` on an account: the system program creates it only if it is unused.
InitAccountUnused(accounts, key) == key \notin DOMAIN accounts

\* The state account taken as passed, its seeds unchecked.
InitializeStateUnchecked(user, st) == TRUE

\* #[account(init, seeds = [b"state", user.key().as_ref()], bump)]
InitializeStateSeeds(user, st) == st = FindProgramAddress("state", user)

\* #[account(init, token::mint = mint, token::authority = vault_authority,
\*           seeds = [b"vault", state.key().as_ref()], bump)]
InitializeVaultSeeds(st, vta) == vta = FindProgramAddress("vault", st)

\* #[account(seeds = [b"vault", state.key().as_ref()], bump)] vault_authority
InitializeAuthoritySeeds(st, auth) == auth = FindProgramAddress("vault", st)

\* Validation and account creation of the Initialize accounts.
InitializeAccounts(user, st, vta, auth) ==
    IF ~InitializeStateSeeds(user, st) THEN "ConstraintSeeds"
    ELSE IF ~InitAccountUnused(state, st) THEN "AccountAlreadyInUse"
    ELSE IF ~InitializeVaultSeeds(st, vta) THEN "ConstraintSeeds"
    ELSE IF ~InitAccountUnused(tokens, vta) THEN "AccountAlreadyInUse"
    ELSE IF ~InitializeAuthoritySeeds(st, auth) THEN "ConstraintSeeds"
    ELSE Ok

\* The token account `init` creates: token::mint is the mint ACCOUNT passed
\* in, token::authority the vault authority.
NewVaultTokenAccount(mintAccount, auth) ==
    [mint |-> mintAccount, owner |-> auth, amount |-> 0]

\* Initialize::initialize: the Vault written from the instruction arguments.
NewVault(amount, mint, vta) ==
    [amount |-> amount,
     vault_bump |-> CanonicalBump,
     state_bump |-> CanonicalBump,
     mint |-> mint,
     vault_token_account |-> vta,
     locked_until |-> None]

Put(f, key, value) ==
    [k \in DOMAIN f \cup {key} |-> IF k = key THEN value ELSE f[k]]

\* History kept of a vault for as long as nothing was withdrawn from it and
\* its deposits sum to less than its target: the sum of the deposits, and
\* whether one of them made a release transfer.  After that, Void.
VoidSaved == [void |-> TRUE, sum |-> 0, released |-> FALSE]
FreshSaved(target) ==
    IF 0 < target THEN [void |-> FALSE, sum |-> 0, released |-> FALSE]
    ELSE VoidSaved
Deposited(h, target, amount, releases) ==
    IF h.void \/ h.sum + amount >= target THEN VoidSaved
    ELSE [void |-> FALSE, sum |-> h.sum + amount,
          released |-> h.released \/ releases > 0]

\* History kept of the last accepted lock_tokens call on a vault.
NoLockCall == [set |-> FALSE, at |-> 0, duration |-> 0]
LockCalled(now, d) == [set |-> TRUE, at |-> now, duration |-> d]

Initialize(user, st, vta, auth, mintAccount, amount, mint) ==
    LET res == InitializeAccounts(user, st, vta, auth) IN
    /\ last' = Outcome("initialize", user, st, "", vta, auth, amount, mint, res,
                       Balance(tokens, vta), LockedUntil(state, st), <<>>)
    /\ IF res = Ok
       THEN /\ state' = Put(state, st, NewVault(amount, mint, vta))
            /\ tokens' = Put(tokens, vta, NewVaultTokenAccount(mintAccount, auth))
            /\ creator' = Put(creator, st, user)
            /\ saved' = Put(saved, st, FreshSaved(amount))
            /\ lockCall' = Put(lockCall, st, NoLockCall)
       ELSE UNCHANGED <<state, tokens, creator, saved, lockCall>>
    /\ UNCHANGED clock

---------------------------------------------------------------------------
(* deposit *)

\* constraint = user_token_account.owner == user.key()
DepositUserTokenOwner(tk, uta, user) == tk[uta].owner = user

\* constraint = user_token_account.mint == state.mint
DepositUserTokenMint(tk, uta, vault) == tk[uta].mint = vault.mint

\* The vault token account taken as passed.
DepositVaultTokenUnchecked(vta, vault) == TRUE

\* constraint = vault_token_account.key() == state.vault_token_account
DepositVaultTokenAccount(vta, vault) == vta = vault.vault_token_account

\* The state account taken as passed, its seeds unchecked.
DepositStateUnchecked(user, st, vault) == TRUE

\* seeds = [b"state", user.key().as_ref()], bump = state.state_bump
DepositStateSeeds(user, st, vault) ==
    st = CreateProgramAddress("state", user, vault.state_bump)

\* seeds = [b"vault", state.key().as_ref()], bump = state.vault_bump
DepositAuthoritySeeds(st, auth, vault) ==
    auth = CreateProgramAddress("vault", st, vault.vault_bump)

\* Validation of the Deposit accounts, before the handler runs.
DepositAccounts(user, uta, vta, st, auth) ==
    IF uta \notin DOMAIN tokens \/ vta \notin DOMAIN tokens
       \/ st \notin DOMAIN state THEN "AccountNotInitialized"
    ELSE IF ~DepositUserTokenOwner(tokens, uta, user) THEN "ConstraintRaw"
    ELSE IF ~DepositUserTokenMint(tokens, uta, state[st]) THEN "ConstraintRaw"
    ELSE IF ~DepositVaultTokenAccount(vta, state[st]) THEN "ConstraintRaw"
    ELSE IF ~DepositStateSeeds(user, st, state[st]) THEN "ConstraintSeeds"
    ELSE IF ~DepositAuthoritySeeds(st, auth, state[st]) THEN "ConstraintSeeds"
    ELSE Ok

\* self.vault_token_account.amount as the handler reads it after the first
\* transfer: the Account<TokenAccount> deserialized when the accounts were
\* validated, which nothing reloads after the CPI.
VaultTokenAccountAmount(loaded, current, vta) == loaded[vta].amount

\* The comparison turned around.
TargetReachedTurned(balance, target) == balance <= target

\* self.vault_token_account.amount >= self.state.amount
TargetReached(balance, target) == balance >= target

\* The seeds the program signs the vault's transfers with.
VaultSigner(st, vault) == CreateProgramAddress("vault", st, vault.vault_bump)

\* The error of an invocation that the runtime ends before it completes (the
\* transaction out of compute units).
ProgramFailedToComplete == "ProgramFailedToComplete"

\* token::transfer(cpi_ctx, amount)? of the release: the token program's
\* answer, or the runtime's when `fails` (the invocation does not complete).
ReleaseResult(fails, tk, from, to, authority, signers, amount) ==
    IF fails THEN ProgramFailedToComplete
    ELSE TransferResult(tk, from, to, authority, signers, amount)

\* The release withheld while locked_until is set.
release_unless_locked(loaded, tk, vault, uta, vta, st, auth, fails) ==
    LET balance == VaultTokenAccountAmount(loaded, tk, vta) IN
    IF TargetReached(balance, vault.amount) /\ ~IsSome(vault.locked_until)
    THEN LET res == ReleaseResult(fails, tk, vta, uta, auth,
                                  {VaultSigner(st, vault)}, balance) IN
         IF res = Ok
         THEN [result |-> Ok,
               tokens |-> TransferEffect(tk, vta, uta, balance),
               transfers |-> <<TransferRecord(vta, uta, auth, balance)>>]
         ELSE [result |-> res, tokens |-> tk, transfers |-> <<>>]
    ELSE [result |-> Ok, tokens |-> tk, transfers |-> <<>>]

\* Deposit::is_savings_target_reached, run on the accounts `tk` that the first
\* transfer left, `loaded` being the accounts as deserialized before it.
is_savings_target_reached(loaded, tk, vault, uta, vta, st, auth, fails) ==
    LET balance == VaultTokenAccountAmount(loaded, tk, vta) IN
    IF TargetReached(balance, vault.amount)
    THEN LET res == ReleaseResult(fails, tk, vta, uta, auth,
                                  {VaultSigner(st, vault)}, balance) IN
         IF res = Ok
         THEN [result |-> Ok,
               tokens |-> TransferEffect(tk, vta, uta, balance),
               transfers |-> <<TransferRecord(vta, uta, auth, balance)>>]
         ELSE [result |-> res, tokens |-> tk, transfers |-> <<>>]
    ELSE [result |-> Ok, tokens |-> tk, transfers |-> <<>>]

\* The transfer in kept when the release fails.
deposit_kept_on_error(tk, vault, user, uta, vta, st, auth, amount, fails) ==
    LET res == TransferResult(tk, uta, vta, user, {user}, amount) IN
    IF res # Ok THEN [result |-> res, tokens |-> tk, transfers |-> <<>>]
    ELSE LET tk1 == TransferEffect(tk, uta, vta, amount)
             rel == is_savings_target_reached(tk, tk1, vault, uta, vta, st,
                                              auth, fails)
         IN IF rel.result # Ok
            THEN [result |-> rel.result, tokens |-> tk1, transfers |-> <<>>]
            ELSE [result |-> Ok, tokens |-> rel.tokens,
                  transfers |-> <<TransferRecord(uta, vta, user, amount)>>
                                \o rel.transfers]

\* Deposit::deposit: the transfer in, then the target check.  An error of
\* either (`?`) is the error of the instruction, and the runtime then
\* discards every change the instruction and its invocations made.
deposit(tk, vault, user, uta, vta, st, auth, amount, fails) ==
    LET res == TransferResult(tk, uta, vta, user, {user}, amount) IN
    IF res # Ok THEN [result |-> res, tokens |-> tk, transfers |-> <<>>]
    ELSE LET tk1 == TransferEffect(tk, uta, vta, amount)
             rel == is_savings_target_reached(tk, tk1, vault, uta, vta, st,
                                              auth, fails)
         IN IF rel.result # Ok
            THEN [result |-> rel.result, tokens |-> tk, transfers |-> <<>>]
            ELSE [result |-> Ok, tokens |-> rel.tokens,
                  transfers |-> <<TransferRecord(uta, vta, user, amount)>>
                                \o rel.transfers]

\* The deposit instruction; `fails` is whether the release, if the handler
\* comes to invoke it, fails to complete.
Deposit(user, uta, vta, st, auth, amount, fails) ==
    LET acc == DepositAccounts(user, uta, vta, st, auth)
        out == IF acc = Ok
               THEN deposit(tokens, state[st], user, uta, vta, st, auth, amount,
                            fails)
               ELSE [result |-> acc, tokens |-> tokens, transfers |-> <<>>]
    IN
    /\ last' = Outcome("deposit", user, st, uta, vta, auth, amount, "",
                       out.result, Balance(tokens, vta),
                       LockedUntil(state, st), out.transfers)
    /\ tokens' = out.tokens
    /\ saved' = IF out.result = Ok
                THEN [saved EXCEPT ![st] = Deposited(@, state[st].amount, amount,
                                                     Len(out.transfers) - 1)]
                ELSE saved
    /\ UNCHANGED <<state, clock, creator, lockCall>>

---------------------------------------------------------------------------
(* withdraw *)

\* The user token account taken as passed, whoever owns it.
WithdrawUserTokenUnchecked(tk, uta, user) == TRUE

\* constraint = user_token_account.owner == user.key()
WithdrawUserTokenOwner(tk, uta, user) == tk[uta].owner = user

\* constraint = user_token_account.mint == state.mint
WithdrawUserTokenMint(tk, uta, vault) == tk[uta].mint = vault.mint

\* constraint = vault_token_account.key() == state.vault_token_account
WithdrawVaultTokenAccount(vta, vault) == vta = vault.vault_token_account

\* seeds = [b"state", user.key().as_ref()], bump = state.state_bump
WithdrawStateSeeds(user, st, vault) ==
    st = CreateProgramAddress("state", user, vault.state_bump)

\* seeds = [b"vault", state.key().as_ref()], bump = state.vault_bump
WithdrawAuthoritySeeds(st, auth, vault) ==
    auth = CreateProgramAddress("vault", st, vault.vault_bump)

\* Validation of the Withdraw accounts, before the handler runs.
WithdrawAccounts(user, uta, vta, st, auth) ==
    IF uta \notin DOMAIN tokens \/ vta \notin DOMAIN tokens
       \/ st \notin DOMAIN state THEN "AccountNotInitialized"
    ELSE IF ~WithdrawUserTokenOwner(tokens, uta, user) THEN "ConstraintRaw"
    ELSE IF ~WithdrawUserTokenMint(tokens, uta, state[st]) THEN "ConstraintRaw"
    ELSE IF ~WithdrawVaultTokenAccount(vta, state[st]) THEN "ConstraintRaw"
    ELSE IF ~WithdrawStateSeeds(user, st, state[st]) THEN "ConstraintSeeds"
    ELSE IF ~WithdrawAuthoritySeeds(st, auth, state[st]) THEN "ConstraintSeeds"
    ELSE Ok

\* A lock that does not expire by itself.
UnlockedByNoLockOnly(locked_until, now) == ~IsSome(locked_until)

\* The lock never looked at.
UnlockedAlways(locked_until, now) == TRUE

\* The expiry itself still locked.
UnlockedAfter(locked_until, now) ==
    IF IsSome(locked_until) THEN now > Unwrap(locked_until) ELSE TRUE

\* require!(clock.unix_timestamp >= locked_until, ...) under if let Some(..)
Unlocked(locked_until, now) ==
    IF IsSome(locked_until) THEN now >= Unwrap(locked_until) ELSE TRUE

\* The transfer out made before the lock is checked.
withdraw_then_check(tk, vault, now, uta, vta, st, auth, amount) ==
    LET res == TransferResult(tk, vta, uta, auth,
                              {VaultSigner(st, vault)}, amount) IN
    IF res # Ok THEN [result |-> res, tokens |-> tk, transfers |-> <<>>]
    ELSE IF ~Unlocked(vault.locked_until, now)
    THEN [result |-> "TokensLocked",
          tokens |-> TransferEffect(tk, vta, uta, amount),
          transfers |-> <<>>]
    ELSE [result |-> Ok,
          tokens |-> TransferEffect(tk, vta, uta, amount),
          transfers |-> <<TransferRecord(vta, uta, auth, amount)>>]

\* Withdraw::withdraw: the lock check, then the transfer out.
withdraw(tk, vault, now, uta, vta, st, auth, amount) ==
    IF ~Unlocked(vault.locked_until, now)
    THEN [result |-> "TokensLocked", tokens |-> tk, transfers |-> <<>>]
    ELSE LET res == TransferResult(tk, vta, uta, auth,
                                   {VaultSigner(st, vault)}, amount) IN
         IF res = Ok
         THEN [result |-> Ok,
               tokens |-> TransferEffect(tk, vta, uta, amount),
               transfers |-> <<TransferRecord(vta, uta, auth, amount)>>]
         ELSE [result |-> res, tokens |-> tk, transfers |-> <<>>]

Withdraw(user, uta, vta, st, auth, amount) ==
    LET acc == WithdrawAccounts(user, uta, vta, st, auth)
        out == IF acc = Ok
               THEN withdraw(tokens, state[st], clock, uta, vta, st, auth, amount)
               ELSE [result |-> acc, tokens |-> tokens, transfers |-> <<>>]
    IN
    /\ last' = Outcome("withdraw", user, st, uta, vta, auth, amount, "",
                       out.result, Balance(tokens, vta),
                       LockedUntil(state, st), out.transfers)
    /\ tokens' = out.tokens
    /\ saved' = IF out.result = Ok THEN [saved EXCEPT ![st] = VoidSaved]
                ELSE saved
    /\ UNCHANGED <<state, clock, creator, lockCall>>

---------------------------------------------------------------------------
(* lock_tokens *)

\* seeds = [b"state", user.key().as_ref()], bump = state.state_bump
LockTokensStateSeeds(user, st, vault) ==
    st = CreateProgramAddress("state", user, vault.state_bump)

\* Validation of the LockTokens accounts, before the handler runs.
LockTokensAccounts(user, st) ==
    IF st \notin DOMAIN state THEN "AccountNotInitialized"
    ELSE IF ~LockTokensStateSeeds(user, st, state[st]) THEN "ConstraintSeeds"
    ELSE Ok

\* The duration taken for the expiry, the current time left out.
CheckedAddDuration(a, b) ==
    IF a + b > I64_MAX \/ a + b < I64_MIN THEN None ELSE Some(b)

\* i64::wrapping_add: the sum wrapped around, never refused.
WrappingAdd(a, b) ==
    Some(((a + b - I64_MIN) % (I64_MAX - I64_MIN + 1)) + I64_MIN)

\* i64::checked_add
CheckedAdd(a, b) ==
    IF a + b > I64_MAX \/ a + b < I64_MIN THEN None ELSE Some(a + b)

\* The expiry written over the savings target as well.
lock_tokens_over_amount(vault, now, duration_seconds) ==
    LET locked_until == CheckedAdd(now, duration_seconds) IN
    IF IsSome(locked_until)
    THEN [result |-> Ok,
          vault |-> [vault EXCEPT !.locked_until = Some(Unwrap(locked_until)),
                                  !.amount = Unwrap(locked_until)]]
    ELSE [result |-> "InvalidLockDuration", vault |-> vault]

\* LockTokens::lock_tokens
lock_tokens(vault, now, duration_seconds) ==
    LET locked_until == CheckedAdd(now, duration_seconds) IN
    IF IsSome(locked_until)
    THEN [result |-> Ok,
          vault |-> [vault EXCEPT !.locked_until = Some(Unwrap(locked_until))]]
    ELSE [result |-> "InvalidLockDuration", vault |-> vault]

LockTokens(user, st, duration_seconds) ==
    LET acc == LockTokensAccounts(user, st)
        out == IF acc = Ok THEN lock_tokens(state[st], clock, duration_seconds)
               ELSE [result |-> acc]
    IN
    /\ last' = Outcome("lock_tokens", user, st, "", "", "", duration_seconds,
                       "", out.result, 0, LockedUntil(state, st), <<>>)
    /\ IF out.result = Ok
       THEN /\ state' = [state EXCEPT ![st] = out.vault]
            /\ lockCall' = [lockCall EXCEPT
                              ![st] = LockCalled(clock, duration_seconds)]
       ELSE UNCHANGED <<state, lockCall>>
    /\ UNCHANGED <<tokens, clock, creator, saved>>

---------------------------------------------------------------------------
(* The clock *)

\* A clock that starts over after MaxTime.
TickAround ==
    /\ clock' = IF clock < MaxTime THEN clock + 1 ELSE 0
    /\ last' = NoOutcome("tick")
    /\ UNCHANGED <<state, tokens, creator, saved, lockCall>>

\* The cluster clock advances; it never runs backwards.
Tick ==
    /\ clock < MaxTime
    /\ clock' = clock + 1
    /\ last' = NoOutcome("tick")
    /\ UNCHANGED <<state, tokens, creator, saved, lockCall>>

---------------------------------------------------------------------------
(* The system *)

Empty == [k \in {} |-> 0]

Init ==
    /\ state = Empty
    /\ tokens = [k \in UserTokenKeys |->
                    [mint |-> CHOOSE m \in Mints :
                                 \E u \in Users : k = UserTokenAccount(u, m),
                     owner |-> CHOOSE u \in Users :
                                 \E m \in Mints : k = UserTokenAccount(u, m),
                     amount |-> InitBal]]
    /\ clock = 0
    /\ last = NoOutcome("none")
    /\ creator = Empty
    /\ saved = Empty
    /\ lockCall = Empty

\* The accounts a request passes: the signer, the state account it names,
\* the user token account, the vault token account and the vault authority.
Request(user, st, uta, vta, auth) ==
    [user |-> user, st |-> st, uta |-> uta, vta |-> vta, auth |-> auth]

StateOf(u) == FindProgramAddress("state", u)
VaultOf(u) == FindProgramAddress("vault", StateOf(u))
Other(u) == CHOOSE o \in Users : o # u

\* Requests on the signer's own state account with the vault accounts derived
\* from it and one of the signer's own token accounts.
OwnRequests ==
    {Request(u, StateOf(u), UserTokenAccount(u, m), VaultOf(u), VaultOf(u)) :
        u \in Users, m \in Mints}

\* Requests that pass one account that is not the signer's own: another
\* user's state account, another user's token account, another token account
\* as the vault token account, another vault authority.
ForeignRequests ==
    UNION {
        {Request(u, StateOf(Other(u)), UserTokenAccount(u, "m1"),
                 VaultOf(Other(u)), VaultOf(Other(u))),
         Request(u, StateOf(u), UserTokenAccount(Other(u), "m1"),
                 VaultOf(u), VaultOf(u)),
         Request(u, StateOf(u), UserTokenAccount(u, "m1"),
                 UserTokenAccount(u, "m1"), VaultOf(u)),
         Request(u, StateOf(u), UserTokenAccount(u, "m1"),
                 UserTokenAccount(Other(u), "m1"), VaultOf(u)),
         Request(u, StateOf(u), UserTokenAccount(u, "m1"),
                 VaultOf(Other(u)), VaultOf(u)),
         Request(u, StateOf(u), UserTokenAccount(u, "m1"),
                 VaultOf(u), VaultOf(Other(u)))} : u \in Users}

\* The amount and the duration the foreign requests carry.
ForeignAmount == 1
ForeignDuration == 1

DoInitialize ==
    \/ \E user \in Founders, mintAccount \in Mints, amount \in Targets,
          mint \in Mints :
           Initialize(user, StateOf(user), VaultOf(user), VaultOf(user),
                      mintAccount, amount, mint)
    \/ \E r \in ForeignRequests :
           /\ r.user \in Founders
           /\ Initialize(r.user, r.st, r.vta, r.auth, "m1", MaxTarget, "m1")

DoDeposit ==
    \/ \E r \in OwnRequests, amount \in Amounts, fails \in BOOLEAN :
           Deposit(r.user, r.uta, r.vta, r.st, r.auth, amount, fails)
    \/ \E r \in ForeignRequests :
           Deposit(r.user, r.uta, r.vta, r.st, r.auth, ForeignAmount, FALSE)

DoWithdraw ==
    \/ \E r \in OwnRequests, amount \in Amounts :
           Withdraw(r.user, r.uta, r.vta, r.st, r.auth, amount)
    \/ \E r \in ForeignRequests :
           Withdraw(r.user, r.uta, r.vta, r.st, r.auth, ForeignAmount)

DoLockTokens ==
    \/ \E u \in Users, duration_seconds \in Durations :
           LockTokens(u, StateOf(u), duration_seconds)
    \/ \E u \in Users :
           LockTokens(u, StateOf(Other(u)), ForeignDuration)

Next ==
    \/ DoInitialize
    \/ DoDeposit
    \/ DoWithdraw
    \/ DoLockTokens
    \/ Tick

Spec == Init /\ [][Next]_vars

\* The requests of the users in U on their own Vaults, with their own token
\* accounts of mint m1 and arguments of the sets given.
OwnInitialize(U, targets) ==
    \E user \in U, amount \in targets :
        Initialize(user, StateOf(user), VaultOf(user), VaultOf(user),
                   "m1", amount, "m1")

OwnDeposit(U, amounts) ==
    \E user \in U, amount \in amounts :
        Deposit(user, UserTokenAccount(user, "m1"), VaultOf(user),
                StateOf(user), VaultOf(user), amount, FALSE)

OwnWithdraw(U, amounts) ==
    \E user \in U, amount \in amounts :
        Withdraw(user, UserTokenAccount(user, "m1"), VaultOf(user),
                 StateOf(user), VaultOf(user), amount)

OwnLockTokens(U, durations) ==
    \E user \in U, duration_seconds \in durations :
        LockTokens(user, StateOf(user), duration_seconds)

\* The owner and the Vault alone, under a clock that keeps advancing (up to
\* MaxTime, where the model stops it).
NextClock ==
    \/ OwnInitialize(Founders, Targets)
    \/ OwnDeposit(Founders, Amounts)
    \/ OwnWithdraw(Founders, Amounts)
    \/ OwnLockTokens(Founders, Durations)
    \/ Tick

SpecClock == Init /\ [][NextClock]_vars /\ WF_vars(Tick)

\* The requests that pass an account of the other user's Vault in place of
\* the signer's own: the other's state account with its vault accounts, the
\* other's vault token account, the other's vault authority.
CrossRequests ==
    UNION {
        {Request(u, StateOf(Other(u)), UserTokenAccount(u, "m1"),
                 VaultOf(Other(u)), VaultOf(Other(u))),
         Request(u, StateOf(u), UserTokenAccount(u, "m1"),
                 VaultOf(Other(u)), VaultOf(u)),
         Request(u, StateOf(u), UserTokenAccount(u, "m1"),
                 VaultOf(u), VaultOf(Other(u)))} : u \in Users}

CrossDeposit ==
    \E r \in CrossRequests :
        Deposit(r.user, r.uta, r.vta, r.st, r.auth, ForeignAmount, FALSE)

CrossWithdraw ==
    \E r \in CrossRequests :
        Withdraw(r.user, r.uta, r.vta, r.st, r.auth, ForeignAmount)

CrossLockTokens ==
    \E u \in Users : LockTokens(u, StateOf(Other(u)), ForeignDuration)

\* Two users, each with a Vault of target MaxTarget for mint m1, each making
\* requests on the own Vault and requests that cross over to the other's.
NextPair ==
    \/ OwnInitialize(Users, {MaxTarget})
    \/ OwnDeposit(Users, {0, ForeignAmount})
    \/ OwnWithdraw(Users, {ForeignAmount})
    \/ OwnLockTokens(Users, {ForeignDuration})
    \/ CrossDeposit
    \/ CrossWithdraw
    \/ CrossLockTokens
    \/ Tick

SpecPair == Init /\ [][NextPair]_vars

---------------------------------------------------------------------------
(* Vocabulary of the properties *)

\* The errors of account validation, which precede every handler.
AccountErrors == {"AccountNotInitialized", "ConstraintRaw", "ConstraintSeeds"}

\* The transfers of an outcome that leave the vault token account it named.
ReleaseTransfers(l) ==
    {i \in 1 .. Len(l.transfers) : l.transfers[i].from = l.vta}

\* The custody balance of a vault.
CustodyBalance(st) == Balance(tokens, state[st].vault_token_account)

DepositSucceeded == last.op = "deposit" /\ last.result = Ok

---------------------------------------------------------------------------
(* Deposit and the release of the savings *)

\* C1: a successful deposit makes a release transfer if and only if the
\* custody balance before it plus the amount deposited reaches the target,
\* and it makes at most one.
C1_ReleaseDecidedOnPostDepositBalance ==
    DepositSucceeded =>
        /\ (ReleaseTransfers(last) # {}) <=>
               (last.pre + last.arg >= state[last.state].amount)
        /\ Cardinality(ReleaseTransfers(last)) <= 1

\* C2: a deposit that makes a release transfer releases the whole custody
\* balance, the prior balance plus the amount deposited, and returns with a
\* custody balance of 0.
C2_ReleaseMovesEntireBalance ==
    (DepositSucceeded /\ ReleaseTransfers(last) # {}) =>
        /\ \A i \in ReleaseTransfers(last) :
               last.transfers[i].amount = last.pre + last.arg
        /\ Balance(tokens, last.vta) = 0

\* C3: while nothing was withdrawn from a vault and the deposits made since
\* its initialize sum to S < target_amount, its custody balance is S and none
\* of the deposits made a release transfer.
C3_BelowTargetNothingReleased ==
    \A st \in DOMAIN state :
        ~saved[st].void =>
            /\ CustodyBalance(st) = saved[st].sum
            /\ ~saved[st].released

\* C3 happens: a second deposit leaves the sum of the deposits below target.
C3_Witness ==
    /\ DepositSucceeded
    /\ last.pre > 0
    /\ last.arg > 0
    /\ ~saved[last.state].void
    /\ saved[last.state].sum = last.pre + last.arg

---------------------------------------------------------------------------
(* Withdraw and the lock *)

\* A withdraw that passed account validation and reached the handler.
WithdrawHandled(l) == l.op = "withdraw" /\ l.result \notin AccountErrors

\* locked_until is Some(t) and now < t
LockedAt(vault, now) ==
    IsSome(vault.locked_until) /\ now < Unwrap(vault.locked_until)

\* The token program accepts the transfer out of the custody account.
TransferOutAccepted(tk, vault, vta, amount) ==
    amount <= tk[vta].amount /\ tk[vta].mint = vault.mint

\* C4 as claimed: an authorized withdraw fails with TokensLocked if and only
\* if locked_until is Some(t) and now < t, and in every other case succeeds,
\* taking exactly amount from the custody balance.
C4_WithdrawFailsOnlyWhenLocked ==
    WithdrawHandled(last) =>
        IF LockedAt(state[last.state], clock)
        THEN last.result = "TokensLocked"
        ELSE /\ last.result = Ok
             /\ Balance(tokens, last.vta) = last.pre - last.arg

\* C4, amended: an authorized withdraw fails with TokensLocked if and only if
\* locked_until is Some(t) and now < t; in every other case it succeeds if
\* and only if the token program accepts the transfer (amount within the
\* custody balance, custody account of the record's asset type), and then
\* moves exactly amount from the custody account to a token account of the
\* owner; a refused withdraw changes no balance.
C4_WithdrawLockedOrTransferred ==
    [][WithdrawHandled(last') =>
        LET st == last'.state
            vta == last'.vta
            amount == last'.arg
        IN /\ (last'.result = "TokensLocked") <=> LockedAt(state[st], clock)
           /\ ~LockedAt(state[st], clock) =>
                  ((last'.result = Ok) <=>
                       TransferOutAccepted(tokens, state[st], vta, amount))
           /\ last'.result = Ok =>
                  \E uta \in UserTokenKeys :
                      /\ tokens[uta].owner = creator[st]
                      /\ tokens' = [tokens EXCEPT ![vta].amount = @ - amount,
                                                  ![uta].amount = @ + amount]
           /\ last'.result # Ok => tokens' = tokens
           /\ state' = state]_vars

\* C4 happens: a withdraw at the very expiry of a lock takes tokens out.
C4_Witness ==
    /\ WithdrawHandled(last)
    /\ last.result = Ok
    /\ last.arg > 0
    /\ state[last.state].locked_until = Some(clock)

\* C5 as claimed: after an accepted lock(d) at time now, a withdraw at the
\* same time now fails with TokensLocked, a withdraw before now + d fails, and
\* a withdraw at or after now + d succeeds.
C5_WithdrawAfterLock ==
    (WithdrawHandled(last) /\ lockCall[last.state].set) =>
        LET c == lockCall[last.state] IN
        /\ clock = c.at => last.result = "TokensLocked"
        /\ clock < c.at + c.duration => last.result = "TokensLocked"
        /\ clock >= c.at + c.duration => last.result = Ok

\* C5, amended: after an accepted lock(d) at time now with no later lock, a
\* withdraw at any time before now + d fails with TokensLocked, so for d > 0
\* does one at the same time now; at or after now + d (for d <= 0 already at
\* now) the lock no longer refuses it, and it succeeds if and only if the
\* token program accepts the transfer.
C5_WithdrawAfterPositiveLock ==
    (WithdrawHandled(last) /\ lockCall[last.state].set) =>
        LET c == lockCall[last.state] IN
        /\ (c.duration > 0 /\ clock = c.at) => last.result = "TokensLocked"
        /\ clock < c.at + c.duration => last.result = "TokensLocked"
        /\ clock >= c.at + c.duration =>
               /\ last.result # "TokensLocked"
               /\ (last.result = Ok) <=>
                      /\ last.arg <= last.pre
                      /\ tokens[last.vta].mint = state[last.state].mint

\* C5 happens: a lock of positive duration made at a later time than 0, and
\* a withdraw that takes tokens out exactly when it expires.
C5_Witness ==
    /\ WithdrawHandled(last)
    /\ last.result = Ok
    /\ last.arg > 0
    /\ lockCall[last.state].set
    /\ lockCall[last.state].duration > 0
    /\ lockCall[last.state].at > 0
    /\ clock = lockCall[last.state].at + lockCall[last.state].duration

---------------------------------------------------------------------------
(* Initialize and the identity of a vault *)

\* The signer of the outcome already has a Vault when the step starts.
HasVault(user) == \E st \in DOMAIN state : creator[st] = user

\* C6: an initialize by an owner who already has a Vault fails, with the
\* account-in-use error when it names that owner's state account, and
\* leaves the Vault and every balance as they were.
C6_SecondInitializeRejected ==
    [][(last'.op = "initialize" /\ HasVault(last'.user)) =>
        /\ last'.result # Ok
        /\ (last'.state \in DOMAIN state /\ creator[last'.state] = last'.user)
               => last'.result = "AccountAlreadyInUse"
        /\ state' = state
        /\ tokens' = tokens]_vars

\* C6 happens: a second initialize with another target is refused on a
\* vault that was locked and holds tokens in the meantime.
C6_Witness ==
    /\ last.op = "initialize"
    /\ last.result = "AccountAlreadyInUse"
    /\ last.state \in DOMAIN state
    /\ last.arg # state[last.state].amount
    /\ IsSome(state[last.state].locked_until)
    /\ CustodyBalance(last.state) > 0

\* C7 as claimed: an owner who has a Vault for one asset type initializes a
\* second one for another asset type, and succeeds.
C7_SecondAssetTypeAccepted ==
    (/\ last.op = "initialize"
     /\ last.result # "ConstraintSeeds"
     /\ \E st \in DOMAIN state :
            creator[st] = last.user /\ state[st].mint # last.mint)
        => last.result = Ok

\* C7, amended: the address of a Vault is a function of its owner alone, so
\* an owner has at most one Vault: an initialize by an owner who has a Vault
\* for another asset type is rejected like one for the same asset type, and
\* no two Vaults of one owner ever exist side by side.
C7_KeyedByOwnerAlone ==
    [][/\ (/\ last'.op = "initialize"
           /\ \E st \in DOMAIN state :
                  creator[st] = last'.user /\ state[st].mint # last'.mint)
              => (last'.result # Ok /\ DOMAIN state' = DOMAIN state)
       /\ \A s1, s2 \in DOMAIN state' :
              creator'[s1] = creator'[s2] => s1 = s2]_vars

\* C7 happens: an initialize for the other asset type is refused.
C7_Witness ==
    /\ last.op = "initialize"
    /\ last.result = "AccountAlreadyInUse"
    /\ last.state \in DOMAIN state
    /\ creator[last.state] = last.user
    /\ state[last.state].mint # last.mint

\* C8: the custody account of every Vault is of the asset type the Vault
\* records.
C8_CustodyAssetTypeIsRecorded ==
    \A st \in DOMAIN state :
        tokens[state[st].vault_token_account].mint = state[st].mint

---------------------------------------------------------------------------
(* Who may operate a vault, and on which custody account *)

\* C9: a deposit, withdraw or lock_tokens signed by another user than the
\* owner of the Vault it names is rejected and changes neither the Vault nor
\* any balance.
C9_NonOwnerRejected ==
    [][(/\ last'.op \in {"deposit", "withdraw", "lock_tokens"}
        /\ last'.state \in DOMAIN state
        /\ last'.user # creator[last'.state])
           => /\ last'.result # Ok
              /\ state' = state
              /\ tokens' = tokens]_vars

\* C9 happens: another user's withdraw from a vault that holds tokens and is
\* not locked is refused.
C9_Witness ==
    /\ last.op = "withdraw"
    /\ last.state \in DOMAIN state
    /\ last.user # creator[last.state]
    /\ last.result # Ok
    /\ ~LockedAt(state[last.state], clock)
    /\ CustodyBalance(last.state) >= last.arg
    /\ last.arg > 0

\* C10: a deposit or withdraw that names another token account than the
\* Vault's vault_token_account is rejected by account validation, before
\* any transfer; every transfer of an accepted one has the Vault's custody
\* account at one end, and no other vault's token account changes.
C10_CustodyBinding ==
    [][(last'.op \in {"deposit", "withdraw"} /\ last'.state \in DOMAIN state) =>
        LET custody == state[last'.state].vault_token_account IN
        /\ last'.vta # custody =>
               (last'.result \in AccountErrors /\ tokens' = tokens)
        /\ \A i \in 1 .. Len(last'.transfers) :
               \/ last'.transfers[i].from = custody
               \/ last'.transfers[i].to = custody
        /\ \A k \in DOMAIN tokens :
               tokens'[k] # tokens[k] => (k = custody \/ k \in UserTokenKeys)]_vars

\* C10 happens: the owner's deposit naming a user's token account as the
\* vault token account is refused by the constraint.
C10_Witness ==
    /\ last.op = "deposit"
    /\ last.state \in DOMAIN state
    /\ last.user = creator[last.state]
    /\ state[last.state].mint = "m1"
    /\ last.vta \in UserTokenKeys
    /\ last.vta # state[last.state].vault_token_account
    /\ last.result = "ConstraintRaw"

---------------------------------------------------------------------------
(* lock_tokens and the expiry it writes *)

\* A lock_tokens that passed account validation and reached the handler.
LockHandled(l) == l.op = "lock_tokens" /\ l.result \notin AccountErrors

\* C11: a lock_tokens(duration) by the owner, on a Vault without a lock or
\* with one, fails with InvalidLockDuration exactly when now + duration
\* leaves the range of i64 and then leaves locked_until as it was; otherwise
\* it sets locked_until to Some(now + duration) and nothing else.  It moves
\* no tokens.
C11_LockSetsExpiry ==
    [][LockHandled(last') =>
        LET st == last'.state
            sum == clock + last'.arg
        IN /\ last'.user = creator[st]
           /\ last'.result \in {Ok, "InvalidLockDuration"}
           /\ (last'.result = "InvalidLockDuration") <=>
                  (sum > I64_MAX \/ sum < I64_MIN)
           /\ last'.result = Ok =>
                  state' = [state EXCEPT ![st].locked_until = Some(sum)]
           /\ last'.result = "InvalidLockDuration" => state' = state
           /\ tokens' = tokens]_vars

\* C11 happens: a lock_tokens whose expiry overflows is refused on a Vault
\* that holds tokens and keeps the expiry an earlier lock_tokens wrote.
C11_Witness ==
    /\ LockHandled(last)
    /\ last.result = "InvalidLockDuration"
    /\ clock + last.arg > I64_MAX
    /\ lockCall[last.state].set
    /\ lockCall[last.state].at < clock
    /\ state[last.state].locked_until =
           Some(lockCall[last.state].at + lockCall[last.state].duration)
    /\ CustodyBalance(last.state) > 0

\* C11 also on the accepting side: a lock_tokens at a later time than 0
\* replaces an expiry with now + duration.
C11_Accepted ==
    /\ LockHandled(last)
    /\ last.result = Ok
    /\ clock > 0
    /\ last.arg > 0
    /\ state[last.state].locked_until = Some(clock + last.arg)

---------------------------------------------------------------------------
(* Deposit and the lock *)

\* A deposit that passed account validation and reached the handler.
DepositHandled(l) == l.op = "deposit" /\ l.result \notin AccountErrors

\* The token program accepts the transfer into the custody account.
TransferInAccepted(tk, uta, vta, amount) ==
    amount <= tk[uta].amount /\ tk[uta].mint = tk[vta].mint

\* The lock states of a Vault at time now: no lock, a lock that expires
\* later, one that expires now, one that expired.
LockStates(now) == {None, Some(now + 1), Some(now), Some(now - 1)}

\* C12: a deposit is never refused or altered by the lock.  Whatever
\* locked_until holds, a deposit that passed validation succeeds if and only
\* if the token program accepts the transfer in (and the release, if made,
\* completes); its result, its transfers (the release among them) and the
\* balances it leaves are those the same deposit has in every lock state;
\* and it leaves the Vault, locked_until included, as it was.
C12_DepositWhateverTheLock ==
    [][DepositHandled(last') =>
        LET st == last'.state
            fails == last'.result = ProgramFailedToComplete
            out(l) == deposit(tokens, [state[st] EXCEPT !.locked_until = l],
                              last'.user, last'.uta, last'.vta, st,
                              last'.auth, last'.arg, fails)
        IN /\ ~fails =>
                  ((last'.result = Ok) <=>
                       TransferInAccepted(tokens, last'.uta, last'.vta,
                                          last'.arg))
           /\ \A l \in LockStates(clock) :
                  /\ out(l).result = last'.result
                  /\ out(l).transfers = last'.transfers
                  /\ out(l).tokens = tokens'
           /\ state' = state]_vars

\* C12 happens: a deposit into a Vault whose lock has not expired is
\* accepted and makes a release transfer that takes tokens out.
C12_Witness ==
    /\ DepositSucceeded
    /\ last.arg > 0
    /\ LockedAt(state[last.state], clock)
    /\ \E i \in ReleaseTransfers(last) : last.transfers[i].amount > 0

\* C12 in the other lock states: accepted deposits with no lock and with an
\* expired one, and one below the target under a lock that has not expired.
C12_NoLock ==
    DepositSucceeded /\ last.arg > 0 /\ state[last.state].locked_until = None
C12_Expired ==
    /\ DepositSucceeded
    /\ last.arg > 0
    /\ IsSome(state[last.state].locked_until)
    /\ ~LockedAt(state[last.state], clock)
C12_LockedBelowTarget ==
    /\ DepositSucceeded
    /\ last.arg > 0
    /\ LockedAt(state[last.state], clock)
    /\ ReleaseTransfers(last) = {}

---------------------------------------------------------------------------
(* A release that fails *)

\* A deposit whose transfer in was accepted and whose release failed.
ReleaseFailed(l) == l.op = "deposit" /\ l.result = ProgramFailedToComplete

\* C13 as claimed: when the transfer in succeeds and the release transfer
\* fails, the deposit is not rolled back: the custody balance is the prior
\* balance plus the amount, and nothing was released.
C13_DepositKeptWhenReleaseFails ==
    ReleaseFailed(last) =>
        /\ Balance(tokens, last.vta) = last.pre + last.arg
        /\ ReleaseTransfers(last) = {}

\* C13, amended: a release fails only in a deposit whose transfer in was
\* accepted and whose target check passed; the deposit then fails with the
\* error of the release and is undone as a whole: every balance, the custody
\* balance and the depositor's included, is what it was before the deposit,
\* no transfer was made and the Vault is unchanged.
C13_DepositUndoneWhenReleaseFails ==
    [][ReleaseFailed(last') =>
        /\ TransferInAccepted(tokens, last'.uta, last'.vta, last'.arg)
        /\ TargetReached(last'.pre, state[last'.state].amount)
        /\ tokens' = tokens
        /\ last'.transfers = <<>>
        /\ state' = state]_vars

\* C13 happens: the release of a deposit of some tokens into a Vault that
\* holds some fails.
C13_Witness ==
    /\ ReleaseFailed(last)
    /\ last.arg > 0
    /\ last.pre > 0
    /\ Balance(tokens, last.vta) = last.pre

---------------------------------------------------------------------------
(* Rejections *)

\* The errors of the checks that verify a request: account validation (not
\* the owner, another custody account, another asset type), account creation
\* (the Vault exists already), the lock, the lock duration.
VerificationErrors ==
    AccountErrors \cup {"AccountAlreadyInUse", "TokensLocked",
                        "InvalidLockDuration"}

\* C14: an instruction rejected by a verification check has no effect: every
\* Vault and every token account, custody and user accounts alike, is after
\* it what it was before it.
C14_RejectionChangesNothing ==
    [][last'.result \in VerificationErrors =>
        /\ state' = state
        /\ tokens' = tokens
        /\ last'.transfers = <<>>]_vars

\* C14 happens: the owner's withdraw of tokens the Vault holds is refused by
\* the lock, the only check between the request and the transfer.
C14_Witness ==
    /\ last.op = "withdraw"
    /\ last.result = "TokensLocked"
    /\ last.user = creator[last.state]
    /\ last.arg > 0
    /\ last.arg <= last.pre
    /\ tokens[last.vta].mint = tokens[last.uta].mint
    /\ Balance(tokens, last.vta) = last.pre

---------------------------------------------------------------------------
(* Locking again *)

\* An accepted lock_tokens on a Vault that had a lock.
Relocked(l) == LockHandled(l) /\ l.result = Ok /\ IsSome(l.locked)

\* C15 as claimed: whenever an accepted lock_tokens replaces
\* locked_until = Some(t) with Some(t'), t' >= t.
C15_RelockNeverShortens ==
    [][Relocked(last') =>
        Unwrap(state'[last'.state].locked_until) >=
            Unwrap(state[last'.state].locked_until)]_vars

\* C15, amended: an accepted lock_tokens replaces Some(t) with
\* Some(now + duration) whatever t is, so the new expiry is earlier than t
\* exactly when now + duration < t; it is not earlier when the duration is
\* at least the duration of the lock_tokens call that wrote t.
C15_RelockFollowsDuration ==
    [][Relocked(last') =>
        LET st == last'.state
            c == lockCall[st]
            t == Unwrap(state[st].locked_until)
            t2 == Unwrap(state'[st].locked_until)
        IN /\ last'.locked = Some(t)
           /\ c.set /\ t = c.at + c.duration
           /\ t2 = clock + last'.arg
           /\ (t2 < t) <=> (clock + last'.arg < t)
           /\ last'.arg >= c.duration => t2 >= t]_vars

\* C15 happens: a lock_tokens accepted while the lock has not expired moves
\* the expiry to an earlier time.
C15_Witness ==
    /\ Relocked(last)
    /\ clock < Unwrap(last.locked)
    /\ Unwrap(state[last.state].locked_until) < Unwrap(last.locked)
    /\ CustodyBalance(last.state) > 0

---------------------------------------------------------------------------
(* What changes a Vault *)

\* C16: a Vault, once initialized, is never deleted and keeps its target
\* amount, its mint, its vault token account and its bumps; deposit (with
\* its release) and withdraw leave every Vault as it was, also a withdraw
\* that takes the balance below the target; lock_tokens changes nothing but
\* locked_until of the Vault it names.
C16_RecordFrame ==
    [][/\ \A st \in DOMAIN state :
              /\ st \in DOMAIN state'
              /\ state'[st] = [state[st] EXCEPT
                                  !.locked_until = state'[st].locked_until]
              /\ state'[st] # state[st] =>
                     (last'.op = "lock_tokens" /\ last'.state = st)
       /\ last'.op \in {"deposit", "withdraw"} => state' = state]_vars

\* C16 happens: a withdraw takes the balance of a Vault that has a lock
\* from its target or above to below the target, which the Vault keeps.
C16_Witness ==
    /\ last.op = "withdraw"
    /\ last.result = Ok
    /\ IsSome(state[last.state].locked_until)
    /\ state[last.state].amount = MaxTarget
    /\ last.pre >= MaxTarget
    /\ CustodyBalance(last.state) < MaxTarget

---------------------------------------------------------------------------
(* What a lock holds back *)

\* The custody balance of the Vault at `st` is lower after the step.
CustodyDecreased(st) ==
    Balance(tokens', state[st].vault_token_account) <
        Balance(tokens, state[st].vault_token_account)

\* C17 as claimed: while locked_until = Some(T) and now < T, the custody
\* balance of the Vault does not decrease, whatever instruction runs.
C17_LockedBalanceNeverDecreases ==
    [][\A st \in DOMAIN state :
          LockedAt(state[st], clock) => ~CustodyDecreased(st)]_vars

\* C17, amended: while locked_until = Some(T) and now < T, no withdraw takes
\* tokens out of the Vault; the custody balance decreases only by the
\* release transfer of an accepted deposit of the owner.  (T itself is the
\* expiry of the latest accepted lock_tokens, which may be earlier than that
\* of a lock_tokens before it.)
C17_LockedBalanceOnlyReleased ==
    [][\A st \in DOMAIN state :
          LockedAt(state[st], clock) =>
              /\ (WithdrawHandled(last') /\ last'.state = st) =>
                     (last'.result = "TokensLocked" /\ tokens' = tokens)
              /\ CustodyDecreased(st) =>
                     /\ last'.op = "deposit"
                     /\ last'.result = Ok
                     /\ last'.state = st
                     /\ last'.user = creator[st]
                     /\ ReleaseTransfers(last') # {}]_vars

\* C17 happens: under a lock that has not expired, a deposit leaves the
\* custody balance lower than it found it.
C17_Witness ==
    /\ DepositSucceeded
    /\ lockCall[last.state].set
    /\ clock < lockCall[last.state].at + lockCall[last.state].duration
    /\ Balance(tokens, last.vta) < last.pre

---------------------------------------------------------------------------
(* A lock that has expired *)

\* The lock check of withdraw lets the owner's withdraw from the Vault at
\* `st` through at the current time.
LockPasses(st) ==
    withdraw(tokens, state[st], clock,
             UserTokenAccount(creator[st], state[st].mint),
             state[st].vault_token_account, st,
             state[st].vault_token_account, 0).result # "TokensLocked"

\* locked_until of the Vault at `st` is Some(expiry).
LockedTo(st, expiry) ==
    st \in DOMAIN state /\ state[st].locked_until = Some(expiry)

\* The step is an accepted lock_tokens on the Vault at `st`.
LockCallOn(st) ==
    last'.op = "lock_tokens" /\ last'.state = st /\ last'.result = Ok

\* C18: under a clock that keeps advancing, a Vault with
\* locked_until = Some(expiry), expiry within the time the clock runs to,
\* comes to let withdraw through unless a lock_tokens replaces the expiry
\* first; and from a state where locked_until is Some(expiry) and withdraw
\* passes the lock, every step other than an accepted lock_tokens on the
\* Vault leaves locked_until at Some(expiry) and withdraw passing the lock.
C18_ExpiredLockUnlocks ==
    /\ \A st \in StateKeys, expiry \in -1 .. MaxTime :
           [](LockedTo(st, expiry) =>
                 <>(\/ LockedTo(st, expiry) /\ LockPasses(st)
                    \/ ~LockedTo(st, expiry)))
    /\ [][\A st \in DOMAIN state :
              (/\ IsSome(state[st].locked_until)
               /\ LockPasses(st)
               /\ ~LockCallOn(st))
                  => /\ state'[st].locked_until = state[st].locked_until
                     /\ LockPasses(st)']_vars

\* C18 happens: a lock of positive duration has expired, locked_until still
\* holds its expiry, and a withdraw takes tokens out after it.
C18_Witness ==
    /\ last.op = "withdraw"
    /\ last.result = Ok
    /\ last.arg > 0
    /\ lockCall[last.state].set
    /\ lockCall[last.state].duration > 0
    /\ state[last.state].locked_until =
           Some(lockCall[last.state].at + lockCall[last.state].duration)
    /\ clock > Unwrap(state[last.state].locked_until)

---------------------------------------------------------------------------
(* Two Vaults side by side *)

\* C19: an instruction, accepted or rejected, leaves every Vault other than
\* the one whose state account it names, and the balance of that Vault's
\* token account, as they were.
C19_VaultsIndependent ==
    [][\A st \in DOMAIN state :
          last'.state # st =>
              /\ st \in DOMAIN state'
              /\ state'[st] = state[st]
              /\ tokens'[state[st].vault_token_account] =
                     tokens[state[st].vault_token_account]]_vars

\* C19 happens: with two Vaults that hold tokens, one of them locked, a
\* deposit into the other is accepted and releases its balance.
C19_Witness ==
    /\ DepositSucceeded
    /\ ReleaseTransfers(last) # {}
    /\ last.pre > 0
    /\ \E st \in DOMAIN state :
           /\ st # last.state
           /\ creator[st] # last.user
           /\ CustodyBalance(st) > 0
           /\ LockedAt(state[st], clock)

\* C19 on the rejecting side: a deposit on the signer's own Vault that names
\* the token account of the other Vault, which holds tokens, is refused.
C19_CrossRefused ==
    /\ last.op = "deposit"
    /\ last.result = "ConstraintRaw"
    /\ last.state \in DOMAIN state
    /\ creator[last.state] = last.user
    /\ \E st \in DOMAIN state :
           /\ st # last.state
           /\ last.vta = state[st].vault_token_account
           /\ CustodyBalance(st) > 0

---------------------------------------------------------------------------
(* Where the tokens of a Vault go *)

\* C20: tokens leave the token account of a Vault only in an accepted
\* deposit (its release) or withdraw that the creator of the Vault signed
\* and that names the Vault; every transfer out of it goes to a token
\* account owned by the creator and of the Vault's mint, under the authority
\* derived from the state account; and a deposit or withdraw that passes
\* another authority, or a user token account of another owner, is rejected
\* by account validation and moves nothing.
C20_CustodyLeavesToOwnerOnly ==
    [][\A st \in DOMAIN state :
          LET custody == state[st].vault_token_account
              owner == creator[st]
              derived == FindProgramAddress("vault", st)
          IN /\ CustodyDecreased(st) =>
                    /\ last'.op \in {"deposit", "withdraw"}
                    /\ last'.result = Ok
                    /\ last'.state = st
                    /\ last'.user = owner
                    /\ \E i \in 1 .. Len(last'.transfers) :
                           last'.transfers[i].from = custody
             /\ \A i \in 1 .. Len(last'.transfers) :
                    last'.transfers[i].from = custody =>
                        /\ last'.user = owner
                        /\ last'.state = st
                        /\ tokens[last'.transfers[i].to].owner = owner
                        /\ tokens[last'.transfers[i].to].mint = state[st].mint
                        /\ last'.transfers[i].authority = derived
             /\ (/\ last'.op \in {"deposit", "withdraw"}
                 /\ last'.state = st
                 /\ \/ last'.auth # derived
                    \/ last'.uta \notin DOMAIN tokens
                    \/ tokens[last'.uta].owner # owner)
                    => (last'.result \in AccountErrors /\ tokens' = tokens)
      ]_vars

\* C20 happens: the owner's withdraw moves tokens from the Vault's token
\* account to the owner's token account under the derived authority.
C20_Witness ==
    /\ last.op = "withdraw"
    /\ last.result = Ok
    /\ last.user = creator[last.state]
    /\ Len(last.transfers) = 1
    /\ last.transfers[1].amount > 0
    /\ last.transfers[1].from = state[last.state].vault_token_account
    /\ last.transfers[1].authority = FindProgramAddress("vault", last.state)
    /\ tokens[last.transfers[1].to].owner = last.user

\* C20 on the rejecting side: the owner's withdraw of tokens the Vault
\* holds, unlocked, into another user's token account or under another
\* authority is refused.
C20_OtherDestinationRefused ==
    /\ last.op = "withdraw"
    /\ last.result = "ConstraintRaw"
    /\ last.user = creator[last.state]
    /\ tokens[last.uta].owner # last.user
    /\ ~LockedAt(state[last.state], clock)
    /\ CustodyBalance(last.state) >= last.arg
    /\ last.arg > 0
C20_OtherAuthorityRefused ==
    /\ last.op = "withdraw"
    /\ last.result = "ConstraintSeeds"
    /\ last.user = creator[last.state]
    /\ last.auth # FindProgramAddress("vault", last.state)
    /\ ~LockedAt(state[last.state], clock)
    /\ CustodyBalance(last.state) >= last.arg
    /\ last.arg > 0

---------------------------------------------------------------------------
(* Conservation of the tokens *)

RECURSIVE SumAmounts(_, _)
\* The sum of the balances of the token accounts `keys`.
SumAmounts(tk, keys) ==
    IF keys = {} THEN 0
    ELSE LET k == CHOOSE x \in keys : TRUE
         IN tk[k].amount + SumAmounts(tk, keys \ {k})

\* The user token accounts of `mint` that `user` owns.
Holdings(tk, user, mint) ==
    {k \in UserTokenKeys : tk[k].owner = user /\ tk[k].mint = mint}

\* The user token accounts that belong to no Vault's owner for the mint of
\* that Vault's token account.
ThirdParty ==
    {k \in UserTokenKeys :
        \A st \in DOMAIN state :
            \/ tokens[k].owner # creator[st]
            \/ tokens[k].mint # tokens[state[st].vault_token_account].mint}

\* C21: for every Vault, the custody balance plus the balances of the
\* owner's token accounts of the same mint is what the owner held of that
\* mint at the start (InitBal per account), whatever instructions ran,
\* accepted or rejected; every other user token account holds what it held
\* at the start; and the supply of every mint is what it was.
C21_TokensConserved ==
    /\ \A st \in DOMAIN state :
           LET custody == state[st].vault_token_account
               mint == tokens[custody].mint
               held == Holdings(tokens, creator[st], mint)
           IN tokens[custody].amount + SumAmounts(tokens, held) =
                  InitBal * Cardinality(held)
    /\ \A k \in ThirdParty : tokens[k].amount = InitBal
    /\ \A m \in Mints :
           SumAmounts(tokens, {k \in DOMAIN tokens : tokens[k].mint = m}) =
               InitBal * Cardinality({k \in UserTokenKeys :
                                         tokens[k].mint = m})

\* C21 happens: a deposit into a Vault that has a lock released tokens to
\* the owner and left some in custody.
C21_Witness ==
    /\ DepositSucceeded
    /\ \E i \in ReleaseTransfers(last) : last.transfers[i].amount > 0
    /\ last.arg > 0
    /\ CustodyBalance(last.state) > 0
    /\ tokens[last.uta].amount > 0
    /\ IsSome(state[last.state].locked_until)

---------------------------------------------------------------------------
(* The range of the balances *)

\* The tokens of `mint` that exist: those the user token accounts held at
\* the start, the program minting none.
Supply(mint) ==
    InitBal * Cardinality({k \in UserTokenKeys : tokens[k].mint = mint})

\* Every balance is at least 0 and at most the supply of its mint.
BalancesInRange(tk) ==
    \A k \in DOMAIN tk : tk[k].amount \in 0 .. Supply(tk[k].mint)

\* C22: every balance, of a custody account or a user token account, stays
\* between 0 and the supply of its mint (a u64 of the token program); a
\* withdraw of more than the custody balance and a deposit of more than the
\* balance of the user token account it draws on fail and leave every
\* balance and every Vault as they were.
C22_BalancesBounded ==
    [][/\ BalancesInRange(tokens)
       /\ BalancesInRange(tokens')
       /\ (/\ last'.op = "withdraw"
           /\ last'.vta \in DOMAIN tokens
           /\ last'.arg > tokens[last'.vta].amount)
              => (last'.result # Ok /\ tokens' = tokens /\ state' = state)
       /\ (/\ last'.op = "deposit"
           /\ last'.uta \in DOMAIN tokens
           /\ last'.arg > tokens[last'.uta].amount)
              => (last'.result # Ok /\ tokens' = tokens /\ state' = state)
      ]_vars

\* C22 happens: the owner's deposit of more than the user token account
\* holds, into a Vault that accepts the mint, is refused for the balance.
C22_Witness ==
    /\ last.op = "deposit"
    /\ last.result = "InsufficientFunds"
    /\ last.user = creator[last.state]
    /\ last.arg > tokens[last.uta].amount
    /\ tokens[last.uta].amount > 0
    /\ tokens[last.uta].mint = tokens[last.vta].mint

\* C22 on the side of withdraw: the owner's withdraw of more than the
\* custody balance from a Vault that holds tokens and is not locked is
\* refused for the balance.
C22_WithdrawRefused ==
    /\ last.op = "withdraw"
    /\ last.result = "InsufficientFunds"
    /\ last.user = creator[last.state]
    /\ last.arg > CustodyBalance(last.state)
    /\ CustodyBalance(last.state) > 0
    /\ ~LockedAt(state[last.state], clock)
====
